---- MODULE Spec2Model ----
(***************************************************************************)
(* Model of probe.c: a one-shot prober that opens a device-mapper          *)
(* multipath node, issues the DM_MPATH_PROBE_PATHS ioctl in a retry loop   *)
(* and reports the outcome through its output streams and exit status.     *)
(*                                                                         *)
(* The program counter pc names the source line about to be executed.      *)
(* The environment (the caller's argument vector, the result of open(2),   *)
(* the result of each ioctl(2), whether stdout is a terminal) is chosen    *)
(* nondeterministically.  The caller may invoke the program again after    *)
(* it has exited; the summary of the run that just ended is then kept in   *)
(* prev so that two runs can be compared.                                  *)
(***************************************************************************)
EXTENDS Integers, Sequences, FiniteSets

\* ---------------------------------------------------------------- bounds
\* largest argument count the caller passes (argc ranges over 1..MaxArgc)
MaxArgc == 3
\* the request counters nreq / ntrans stop counting (saturate) here; the
\* program itself has no counter and keeps looping past it
MaxCount == 4

\* ----------------------------------------------------------- environment
ProgName == "mpathprtest"
Paths == {"/dev/dm-0", "/dev/mapper/mpatha"}

\* argument vectors: argv[0] is the program name (index 1 here), the
\* remaining entries are caller-chosen strings
RECURSIVE ArgvOfLen(_)
ArgvOfLen(n) ==
    IF n = 1 THEN {<<ProgName>>}
    ELSE {Append(a, p) : a \in ArgvOfLen(n - 1), p \in Paths}

Argvs == UNION {ArgvOfLen(n) : n \in 1..MaxArgc}

\* errno values open(2) may fail with
OpenErrnos == {"ENOENT", "EACCES"}
\* descriptors open(2) may return on success (0 when stdin was closed)
OpenFds == {0, 3}
\* the two statuses the loop retries on (line 33)
Transient == {"EINTR", "EAGAIN"}
\* errno values the probe ioctl may fail with
IoctlErrnos == {"ENOTCONN", "EINTR", "EAGAIN", "EACCES", "ENOTTY"}

\* strerror(3): the OS error text used by %m (line 25) and perror (line 34)
StrError(e) ==
    CASE e = "ENOENT"   -> "No such file or directory"
      [] e = "EACCES"   -> "Permission denied"
      [] e = "EINTR"    -> "Interrupted system call"
      [] e = "EAGAIN"   -> "Resource temporarily unavailable"
      [] e = "ENOTTY"   -> "Inappropriate ioctl for device"
      [] e = "ENOTCONN" -> "Transport endpoint is not connected"
      [] OTHER          -> "Success"

\* ----------------------------------------------------------------- state
VARIABLES
    argv,       \* argument vector of the current run (argc = Len(argv))
    tty,        \* TRUE iff stdout is a terminal (line buffered)
    pc,         \* source line about to execute, or "exited"
    fd,         \* main's local fd (-1 until line 23 assigns it)
    errno,      \* the C library's errno
    ret,        \* value returned by the latest ioctl (0 before any)
    isopen,     \* TRUE iff the process holds the device descriptor
    out,        \* lines written to file descriptor 1
    buf,        \* lines sitting in the stdio buffer of stdout
    err,        \* messages written to stderr (unbuffered)
    exit_code,  \* exit status, -1 while the process runs
    nopen,      \* number of open(2) calls made by this run
    nclose,     \* number of close(2) calls made by this run
    nreq,       \* number of probe requests issued (saturates at MaxCount)
    ntrans,     \* number of them that returned EINTR/EAGAIN (saturating)
    prev        \* {} or {summary of the previous, finished run}

vars == <<argv, tty, pc, fd, errno, ret, isopen, out, buf, err, exit_code,
          nopen, nclose, nreq, ntrans, prev>>

argc == Len(argv)

\* saturating increment of the observation counters
Inc(n) == IF n < MaxCount THEN n + 1 ELSE n

\* ------------------------------------------------------------- messages
\* line 20: fprintf(stderr, "Usage: %s <dm-path>\n", argv[0])
UsageMsg(name) == <<"Usage: ", name, " <dm-path>">>
\* line 25: fprintf(stderr, "open of %s failed: %m\n", argv[1])
OpenFailedMsg(path, e) == <<"open of ", path, " failed: ", StrError(e)>>
\* line 34: perror("ioctl failed")
PerrorMsg(s, e) == <<s, ": ", StrError(e)>>

\* ------------------------------------------------------ library helpers
\* printf of one '\n'-terminated line to stdout: written at once when
\* stdout is a terminal, otherwise kept in the stdio buffer
Printf(line) ==
    IF tty
    THEN out' = out \o buf \o <<line>> /\ buf' = <<>>
    ELSE buf' = Append(buf, line) /\ out' = out

\* exit(3) and the return from main: flush stdout, end the process.  The
\* descriptor table is left as it is so that isopen tells whether the
\* handle was still held when the process ended.
Exit(code) ==
    /\ out' = out \o buf
    /\ buf' = <<>>
    /\ exit_code' = code
    /\ pc' = "exited"

\* what the run was given and what it produced
OpenResult ==
    IF nopen = 0 THEN "none" ELSE IF fd < 0 THEN errno ELSE "OK"
LastStatus ==
    IF nreq = 0 THEN "none" ELSE IF ret = 0 THEN "OK" ELSE errno
Summary ==
    [argv |-> argv, open |-> OpenResult, last |-> LastStatus, nreq |-> nreq,
     exit_code |-> exit_code, out |-> out, err |-> err]

\* ----------------------------------------------------------------- Init
Init ==
    /\ argv \in Argvs
    /\ tty \in BOOLEAN
    /\ pc = "L19"
    /\ fd = -1
    /\ errno = "0"
    /\ ret = 0
    /\ isopen = FALSE
    /\ out = <<>>
    /\ buf = <<>>
    /\ err = <<>>
    /\ exit_code = -1
    /\ nopen = 0
    /\ nclose = 0
    /\ nreq = 0
    /\ ntrans = 0
    /\ prev = {}

\* -------------------------------------------------------------- actions
\* variant of line 19: if (argc < 2)
CheckArgc_lt ==
    /\ pc = "L19"
    /\ pc' = IF argc < 2 THEN "L20" ELSE "L23"
    /\ UNCHANGED <<argv, tty, fd, errno, ret, isopen, out, buf, err,
                   exit_code, nopen, nclose, nreq, ntrans, prev>>

\* line 19: if (argc != 2)
CheckArgc ==
    /\ pc = "L19"
    /\ pc' = IF argc # 2 THEN "L20" ELSE "L23"
    /\ UNCHANGED <<argv, tty, fd, errno, ret, isopen, out, buf, err,
                   exit_code, nopen, nclose, nreq, ntrans, prev>>

\* line 20: fprintf(stderr, "Usage: ...")
PrintUsage ==
    /\ pc = "L20"
    /\ err' = Append(err, UsageMsg(argv[1]))
    /\ pc' = "L21"
    /\ UNCHANGED <<argv, tty, fd, errno, ret, isopen, out, buf,
                   exit_code, nopen, nclose, nreq, ntrans, prev>>

\* line 21: exit(1)
ExitUsage ==
    /\ pc = "L21"
    /\ Exit(1)
    /\ UNCHANGED <<argv, tty, fd, errno, ret, isopen, err,
                   nopen, nclose, nreq, ntrans, prev>>

\* line 23: fd = open(argv[1], O_RDONLY)
OpenDevice ==
    /\ pc = "L23"
    /\ nopen' = nopen + 1
    /\ \/ \E f \in OpenFds :
            /\ fd' = f
            /\ isopen' = TRUE
            /\ errno' = errno
       \/ \E e \in OpenErrnos :
            /\ fd' = -1
            /\ isopen' = FALSE
            /\ errno' = e
    /\ pc' = "L24"
    /\ UNCHANGED <<argv, tty, ret, out, buf, err, exit_code,
                   nclose, nreq, ntrans, prev>>

\* variant of line 24: if (fd == 0)
CheckFd_eq0 ==
    /\ pc = "L24"
    /\ pc' = IF fd = 0 THEN "L25" ELSE "L28"
    /\ UNCHANGED <<argv, tty, fd, errno, ret, isopen, out, buf, err,
                   exit_code, nopen, nclose, nreq, ntrans, prev>>

\* line 24: if (fd < 0)
CheckFd ==
    /\ pc = "L24"
    /\ pc' = IF fd < 0 THEN "L25" ELSE "L28"
    /\ UNCHANGED <<argv, tty, fd, errno, ret, isopen, out, buf, err,
                   exit_code, nopen, nclose, nreq, ntrans, prev>>

\* variant of line 25: the message names argv[0] instead of argv[1]
PrintOpenFailed_argv0 ==
    /\ pc = "L25"
    /\ err' = Append(err, OpenFailedMsg(argv[1], errno))
    /\ pc' = "L26"
    /\ UNCHANGED <<argv, tty, fd, errno, ret, isopen, out, buf,
                   exit_code, nopen, nclose, nreq, ntrans, prev>>

\* line 25: fprintf(stderr, "open of %s failed: %m\n", argv[1])
PrintOpenFailed ==
    /\ pc = "L25"
    /\ err' = Append(err, OpenFailedMsg(argv[2], errno))
    /\ pc' = "L26"
    /\ UNCHANGED <<argv, tty, fd, errno, ret, isopen, out, buf,
                   exit_code, nopen, nclose, nreq, ntrans, prev>>

\* line 26: exit(1)
ExitOpenFailed ==
    /\ pc = "L26"
    /\ Exit(1)
    /\ UNCHANGED <<argv, tty, fd, errno, ret, isopen, err,
                   nopen, nclose, nreq, ntrans, prev>>

\* line 28: printf("probing\n")
PrintProbing ==
    /\ pc = "L28"
    /\ Printf("probing")
    /\ pc' = "L29"
    /\ UNCHANGED <<argv, tty, fd, errno, ret, isopen, err,
                   exit_code, nopen, nclose, nreq, ntrans, prev>>

\* variant of line 29: the loop tests errno instead of the return value
Ioctl_errnotest ==
    /\ pc = "L29"
    /\ nreq' = Inc(nreq)
    /\ \/ /\ ret' = 0
          /\ errno' = errno
          /\ ntrans' = ntrans
       \/ \E e \in IoctlErrnos :
            /\ ret' = -1
            /\ errno' = e
            /\ ntrans' = IF e \in Transient THEN Inc(ntrans) ELSE ntrans
    /\ pc' = IF errno' # "0" THEN "L30" ELSE "L38"
    /\ UNCHANGED <<argv, tty, fd, isopen, out, buf, err, exit_code,
                   nopen, nclose, prev>>

\* line 29: while (ioctl(fd, DM_MPATH_PROBE_PATHS) < 0)
\* one request is issued on fd; the kernel answers 0, or -1 with errno set
Ioctl ==
    /\ pc = "L29"
    /\ nreq' = Inc(nreq)
    /\ \/ /\ ret' = 0
          /\ errno' = errno
          /\ ntrans' = ntrans
       \/ \E e \in IoctlErrnos :
            /\ ret' = -1
            /\ errno' = e
            /\ ntrans' = IF e \in Transient THEN Inc(ntrans) ELSE ntrans
    /\ pc' = IF ret' < 0 THEN "L30" ELSE "L38"
    /\ UNCHANGED <<argv, tty, fd, isopen, out, buf, err, exit_code,
                   nopen, nclose, prev>>

\* line 30: if (errno == ENOTCONN)
CheckNotConn ==
    /\ pc = "L30"
    /\ pc' = IF errno = "ENOTCONN" THEN "L31" ELSE "L33"
    /\ UNCHANGED <<argv, tty, fd, errno, ret, isopen, out, buf, err,
                   exit_code, nopen, nclose, nreq, ntrans, prev>>

\* variant of line 31: the outcome is also reported through perror
PrintNoUsablePaths_perror ==
    /\ pc = "L31"
    /\ Printf("no usable paths")
    /\ err' = Append(err, PerrorMsg("ioctl failed", errno))
    /\ pc' = "L32"
    /\ UNCHANGED <<argv, tty, fd, errno, ret, isopen,
                   exit_code, nopen, nclose, nreq, ntrans, prev>>

\* line 31: printf("no usable paths\n")
PrintNoUsablePaths ==
    /\ pc = "L31"
    /\ Printf("no usable paths")
    /\ pc' = "L32"
    /\ UNCHANGED <<argv, tty, fd, errno, ret, isopen, err,
                   exit_code, nopen, nclose, nreq, ntrans, prev>>

\* variant of line 32: the no-usable-path exit reports success
ExitNoUsablePaths_exit0 ==
    /\ pc = "L32"
    /\ Exit(0)
    /\ UNCHANGED <<argv, tty, fd, errno, ret, isopen, err,
                   nopen, nclose, nreq, ntrans, prev>>

\* variant of line 32: the handle is closed before exit(1)
ExitNoUsablePaths_closes ==
    /\ pc = "L32"
    /\ isopen' = FALSE
    /\ nclose' = nclose + 1
    /\ Exit(1)
    /\ UNCHANGED <<argv, tty, fd, errno, ret, err,
                   nopen, nreq, ntrans, prev>>

\* variant of line 32: the exit(1) is left out, control falls out of the
\* if chain and back to the loop condition
ExitNoUsablePaths_noexit ==
    /\ pc = "L32"
    /\ pc' = "L29"
    /\ UNCHANGED <<argv, tty, fd, errno, ret, isopen, out, buf, err,
                   exit_code, nopen, nclose, nreq, ntrans, prev>>

\* line 32: exit(1)
ExitNoUsablePaths ==
    /\ pc = "L32"
    /\ Exit(1)
    /\ UNCHANGED <<argv, tty, fd, errno, ret, isopen, err,
                   nopen, nclose, nreq, ntrans, prev>>

\* variant of line 33: the retry re-enters at the printf of line 28
CheckTransient_reprint ==
    /\ pc = "L33"
    /\ pc' = IF errno # "EINTR" /\ errno # "EAGAIN" THEN "L34" ELSE "L28"
    /\ UNCHANGED <<argv, tty, fd, errno, ret, isopen, out, buf, err,
                   exit_code, nopen, nclose, nreq, ntrans, prev>>

\* variant of line 33: only EINTR is retried
CheckTransient_onlyEINTR ==
    /\ pc = "L33"
    /\ pc' = IF errno # "EINTR" THEN "L34" ELSE "L29"
    /\ UNCHANGED <<argv, tty, fd, errno, ret, isopen, out, buf, err,
                   exit_code, nopen, nclose, nreq, ntrans, prev>>

\* variant of line 33: the retry gives up after two requests
CheckTransient_capped ==
    /\ pc = "L33"
    /\ pc' = IF (errno # "EINTR" /\ errno # "EAGAIN") \/ nreq >= 2
             THEN "L34" ELSE "L29"
    /\ UNCHANGED <<argv, tty, fd, errno, ret, isopen, out, buf, err,
                   exit_code, nopen, nclose, nreq, ntrans, prev>>

\* line 33: else if (errno != EINTR && errno != EAGAIN); falling out of
\* the if chain goes back to the loop condition on line 29
CheckTransient ==
    /\ pc = "L33"
    /\ pc' = IF errno # "EINTR" /\ errno # "EAGAIN" THEN "L34" ELSE "L29"
    /\ UNCHANGED <<argv, tty, fd, errno, ret, isopen, out, buf, err,
                   exit_code, nopen, nclose, nreq, ntrans, prev>>

\* variant of line 34: fprintf(stderr, "ioctl failed\n"), no error text
Perror_noerrtext ==
    /\ pc = "L34"
    /\ err' = Append(err, <<"ioctl failed">>)
    /\ pc' = "L35"
    /\ UNCHANGED <<argv, tty, fd, errno, ret, isopen, out, buf,
                   exit_code, nopen, nclose, nreq, ntrans, prev>>

\* line 34: perror("ioctl failed")
Perror ==
    /\ pc = "L34"
    /\ err' = Append(err, PerrorMsg("ioctl failed", errno))
    /\ pc' = "L35"
    /\ UNCHANGED <<argv, tty, fd, errno, ret, isopen, out, buf,
                   exit_code, nopen, nclose, nreq, ntrans, prev>>

\* line 35: exit(1)
ExitIoctlFailed ==
    /\ pc = "L35"
    /\ Exit(1)
    /\ UNCHANGED <<argv, tty, fd, errno, ret, isopen, err,
                   nopen, nclose, nreq, ntrans, prev>>

\* variant of line 38: the close is left out
CloseDevice_noclose ==
    /\ pc = "L38"
    /\ pc' = "L39"
    /\ UNCHANGED <<argv, tty, fd, errno, ret, isopen, out, buf, err,
                   exit_code, nopen, nclose, nreq, ntrans, prev>>

\* line 38: close(fd)
CloseDevice ==
    /\ pc = "L38"
    /\ isopen' = FALSE
    /\ nclose' = nclose + 1
    /\ pc' = "L39"
    /\ UNCHANGED <<argv, tty, fd, errno, ret, out, buf, err, exit_code,
                   nopen, nreq, ntrans, prev>>

\* variant of line 39: return 1
ReturnMain_ret1 ==
    /\ pc = "L39"
    /\ Exit(1)
    /\ UNCHANGED <<argv, tty, fd, errno, ret, isopen, err,
                   nopen, nclose, nreq, ntrans, prev>>

\* line 39: return 0
ReturnMain ==
    /\ pc = "L39"
    /\ Exit(0)
    /\ UNCHANGED <<argv, tty, fd, errno, ret, isopen, err,
                   nopen, nclose, nreq, ntrans, prev>>

\* lines 15-17: the caller runs the program again.  A new process starts
\* main with nothing carried over from the run that ended; prev remembers
\* what that run was given and what it produced.
Invoke ==
    /\ pc = "exited"
    /\ prev' = {Summary}
    /\ argv' \in Argvs
    /\ tty' \in BOOLEAN
    /\ pc' = "L19"
    /\ fd' = -1
    /\ errno' = "0"
    /\ ret' = 0
    /\ isopen' = FALSE
    /\ out' = <<>>
    /\ buf' = <<>>
    /\ err' = <<>>
    /\ exit_code' = -1
    /\ nopen' = 0
    /\ nclose' = 0
    /\ nreq' = 0
    /\ ntrans' = 0

Next ==
    \/ CheckArgc
    \/ PrintUsage
    \/ ExitUsage
    \/ OpenDevice
    \/ CheckFd
    \/ PrintOpenFailed
    \/ ExitOpenFailed
    \/ PrintProbing
    \/ Ioctl
    \/ CheckNotConn
    \/ PrintNoUsablePaths
    \/ ExitNoUsablePaths
    \/ CheckTransient
    \/ Perror
    \/ ExitIoctlFailed
    \/ CloseDevice
    \/ ReturnMain
    \/ Invoke

Spec == Init /\ [][Next]_vars

\* the process is always scheduled and every system call returns
LiveSpec == Spec /\ WF_vars(Next)

\* ============================================================ properties
Exited == pc = "exited"
\* everything handed to printf so far, written out or still buffered
Printed == out \o buf
Count(s, x) == Cardinality({i \in DOMAIN s : s[i] = x})
Contains(msg, part) == \E i \in DOMAIN msg : msg[i] = part
\* the latest probe request failed with EINTR or EAGAIN
RetryPending == nreq > 0 /\ ret < 0 /\ errno \in Transient

\* C1: a finished run has exit status 0 exactly when a probe request
\* returned success (a success always is the latest status, since it ends
\* the loop); a usage error, an open failure, a not-connected status and
\* any other non-transient failure status all end the run with status 1.
C1_ExitStatus ==
    Exited =>
        /\ exit_code \in {0, 1}
        /\ (exit_code = 0 <=> LastStatus = "OK")
        /\ (argc # 2 => exit_code = 1)
        /\ (OpenResult \in OpenErrnos => exit_code = 1)
        /\ (LastStatus = "ENOTCONN" => exit_code = 1)
        /\ (LastStatus \in IoctlErrnos \ Transient => exit_code = 1)

C1_Witness == Exited /\ exit_code = 0 /\ ntrans > 0

\* C2: once the request has returned success after N transient statuses
\* (N = ntrans, exact below the counter's ceiling), exactly N+1 requests
\* were issued, the run is on its way out of the loop, `probing` was
\* printed exactly once and `no usable paths` never, and the run ends
\* with exit code 0.
C2_TransientsThenSuccess ==
    (nreq > 0 /\ ret = 0) =>
        /\ pc \in {"L38", "L39", "exited"}
        /\ (ntrans < MaxCount => nreq = ntrans + 1)
        /\ Count(Printed, "probing") = 1
        /\ Count(Printed, "no usable paths") = 0
        /\ (Exited => exit_code = 0 /\ out = <<"probing">>)

C2_Witness == Exited /\ exit_code = 0 /\ ntrans = 2 /\ nreq = 3

C4_RetryIffTransient ==
    /\ (RetryPending => pc \in {"L29", "L30", "L33"})
    /\ (pc = "L29" => (nreq = 0 \/ RetryPending))

C4_Witness == pc = "L29" /\ RetryPending /\ ntrans >= 2 /\ errno = "EAGAIN"

\* C5: with an argument count other than one positional argument the
\* device is never opened, `probing` is never printed, no request is
\* issued, and the run ends with status 1 and the usage message on stderr.
C5_UsageError ==
    argc # 2 =>
        /\ nopen = 0 /\ ~isopen
        /\ nreq = 0
        /\ Printed = <<>>
        /\ pc \in {"L19", "L20", "L21", "exited"}
        /\ (Exited => /\ exit_code = 1
                      /\ err = <<UsageMsg(argv[1])>>)

C5_Witness == Exited /\ argc > 2 /\ Len(err) = 1

\* C6: when the open fails, it is not tried again, no request is issued,
\* `probing` is not printed, and the run ends with status 1 and a single
\* stderr message that contains the path and the OS error text.
C6_OpenFailure ==
    (nopen > 0 /\ fd < 0) =>
        /\ nopen = 1
        /\ nreq = 0
        /\ Printed = <<>>
        /\ pc \in {"L24", "L25", "L26", "exited"}
        /\ (Exited => /\ exit_code = 1
                      /\ Len(err) = 1
                      /\ Contains(err[1], argv[2])
                      /\ Contains(err[1], StrError(errno))
                      /\ err[1][1] = "open of ")

C6_Witness == Exited /\ nopen = 1 /\ fd < 0 /\ errno = "ENOENT"

\* C7: after a failure status that is none of not-connected, interrupted
\* or try-again the run is on the diagnostic exit path: no further
\* request, no `no usable paths`, no close; it writes one diagnostic with
\* the OS error text to stderr and exits with status 1, handle still held.
C7_OperationalError ==
    (nreq > 0 /\ ret < 0 /\ errno \notin {"ENOTCONN", "EINTR", "EAGAIN"}) =>
        /\ pc \in {"L30", "L33", "L34", "L35", "exited"}
        /\ Count(Printed, "no usable paths") = 0
        /\ nclose = 0 /\ isopen
        /\ (pc \in {"L35", "exited"} =>
                /\ Len(err) = 1
                /\ err[1][1] = "ioctl failed"
                /\ Contains(err[1], StrError(errno)))
        /\ (Exited => exit_code = 1)

C7_Witness == Exited /\ nreq = 1 /\ ret < 0 /\ errno = "EACCES"

\* C8: two finished runs with the same arguments, the same open result
\* and the same first non-transient status have the same exit code and
\* the same text on stdout and stderr, whatever number and kind of
\* transient statuses preceded that status in either run.
C8_TransientsInvisible ==
    \A p \in prev :
        (Exited /\ p.argv = argv /\ p.open = OpenResult
                /\ p.last = LastStatus) =>
            /\ p.exit_code = exit_code
            /\ p.out = out
            /\ p.err = err

C8_Witness ==
    /\ Exited
    /\ ntrans > 0
    /\ \E p \in prev : /\ p.argv = argv /\ p.open = OpenResult
                       /\ p.last = LastStatus /\ p.last = "EACCES"
                       /\ p.nreq # nreq

\* C9: a run against a device whose request returns success at once ends
\* with exit code 0, the single stdout line `probing` and nothing on
\* stderr, and so equals the previous such run: nothing carries over.
SuccessAtOnce(s) == s.open = "OK" /\ s.last = "OK" /\ s.nreq = 1

C9_Idempotent ==
    (Exited /\ SuccessAtOnce(Summary)) =>
        /\ exit_code = 0
        /\ out = <<"probing">>
        /\ err = <<>>
        /\ \A p \in prev : SuccessAtOnce(p) =>
                /\ p.exit_code = exit_code
                /\ p.out = out
                /\ p.err = err

C9_Witness ==
    Exited /\ SuccessAtOnce(Summary) /\ \E p \in prev : SuccessAtOnce(p)

\* C10: there is no retry cap: a transient failure at line 33 always
\* leads back to the request of line 29, however many requests were
\* issued, and the process does not exit while the latest status is
\* transient.  Under fair scheduling a behaviour either ends up retrying
\* forever (the request returns EINTR/EAGAIN forever), and then issues
\* requests again and again, or its runs terminate.
Spinning == pc \in {"L29", "L30", "L33"} /\ RetryPending

C10_Termination ==
    /\ [][(pc = "L33" /\ errno \in Transient) => pc' = "L29"]_vars
    /\ [](RetryPending => ~Exited)
    /\ (<>[]Spinning => []<>(pc = "L29"))
    /\ (<>[]Spinning \/ []<>Exited)

C10_Witness == Spinning /\ ntrans = MaxCount /\ nreq = MaxCount

\* C11: a run that ends with exit status 0 went through successful open,
\* `probing`, one or more requests the last of which returned success,
\* close, exit, in that order: each of these events has happened only if
\* the one before it has, the handle was closed exactly once and is not
\* held when the process exits.
C11_NormalRunOrder ==
    /\ (Count(Printed, "probing") > 0 => nopen = 1 /\ fd >= 0)
    /\ (nreq > 0 => Count(Printed, "probing") = 1)
    /\ (nclose > 0 => nreq > 0 /\ ret = 0)
    /\ (Exited /\ exit_code = 0 =>
            /\ nopen = 1 /\ fd >= 0
            /\ out = <<"probing">>
            /\ nreq >= 1 /\ ret = 0
            /\ nclose = 1
            /\ ~isopen)
    /\ (pc = "L38" => isopen /\ nclose = 0 /\ exit_code = -1)
    /\ (pc = "L39" => ~isopen /\ nclose = 1 /\ exit_code = -1)

C11_Witness ==
    Exited /\ exit_code = 0 /\ nclose = 1 /\ ~isopen /\ nreq = 2

\* C12: `probing` is handed to printf exactly once in every run whose
\* open succeeded, after the open and before the first request, and not
\* again on a retry; `no usable paths` is printed at most once and only
\* after a request returned not-connected; after plain success stdout
\* holds only the line `probing`.
C12_OutputLines ==
    /\ (Count(Printed, "probing") > 0 => nopen = 1 /\ fd >= 0)
    /\ (nopen = 1 /\ fd >= 0 /\ pc \notin {"L24", "L28"} =>
            Count(Printed, "probing") = 1)
    /\ (pc \in {"L24", "L28"} => Printed = <<>> /\ nreq = 0)
    /\ (pc = "L29" => Printed = <<"probing">>)
    /\ Count(Printed, "no usable paths") <= 1
    /\ (Count(Printed, "no usable paths") = 1 =>
            /\ LastStatus = "ENOTCONN"
            /\ Printed = <<"probing", "no usable paths">>)
    /\ (Exited => buf = <<>>)
    /\ (Exited /\ LastStatus = "OK" => out = <<"probing">>)

C12_Witness ==
    /\ pc = "L29" /\ ntrans >= 2 /\ Printed = <<"probing">>
    /\ \E p \in prev : p.out = <<"probing", "no usable paths">>

\* C13: a finished run reports exactly one cause that agrees with its
\* exit status: with status 0 nothing is on stderr and `no usable paths`
\* is not printed; with status 1 exactly one of the usage message
\* (stderr), the open-failure message (stderr), `no usable paths`
\* (stdout, stderr empty) and the ioctl diagnostic (stderr) was emitted.
IsUsage(m) == m[1] = "Usage: "
IsOpenFailed(m) == m[1] = "open of "
IsIoctlFailed(m) == m[1] = "ioctl failed"

C13_OneCause ==
    Exited =>
        /\ (exit_code = 0 =>
                err = <<>> /\ Count(out, "no usable paths") = 0)
        /\ (exit_code # 0 =>
                /\ Len(err) + Count(out, "no usable paths") = 1
                /\ (argc # 2 <=> (Len(err) = 1 /\ IsUsage(err[1])))
                /\ (OpenResult \in OpenErrnos <=>
                        (Len(err) = 1 /\ IsOpenFailed(err[1])))
                /\ (LastStatus = "ENOTCONN" <=>
                        Count(out, "no usable paths") = 1)
                /\ (LastStatus \in IoctlErrnos \ {"ENOTCONN"} <=>
                        (Len(err) = 1 /\ IsIoctlFailed(err[1]))))

C13_Witness ==
    /\ Exited /\ exit_code = 1 /\ LastStatus = "ENOTCONN" /\ err = <<>>
    /\ \E p \in prev : p.exit_code = 1 /\ Len(p.err) = 1
                       /\ IsIoctlFailed(p.err[1])

\* C14: the control flow refines the state machine Start, Opened,
\* Probing, Succeeded, NoUsablePath, Failed.  StateOf maps a program
\* state to the machine's state; every step of a run either keeps that
\* state or takes one of the listed transitions under its condition, and
\* no step of a run leaves Succeeded, NoUsablePath or Failed.  (A new
\* invocation is a new run and begins in Start.)
StateOf(l, f, r, e, n) ==
    CASE l \in {"L19", "L23"}        -> "Start"
      [] l \in {"L20", "L21"}        -> "Failed"
      [] l = "L24"                   -> IF f < 0 THEN "Failed" ELSE "Opened"
      [] l \in {"L25", "L26"}        -> "Failed"
      [] l = "L28"                   -> "Opened"
      [] l \in {"L29", "L30", "L33"} -> "Probing"
      [] l \in {"L31", "L32"}        -> "NoUsablePath"
      [] l \in {"L34", "L35"}        -> "Failed"
      [] l \in {"L38", "L39"}        -> "Succeeded"
      [] OTHER                       ->
            IF n = 0 \/ f < 0 THEN "Failed"
            ELSE IF r = 0 THEN "Succeeded"
            ELSE IF e = "ENOTCONN" THEN "NoUsablePath" ELSE "Failed"

Transitions ==
    {<<"Start", "Opened">>, <<"Start", "Failed">>, <<"Opened", "Probing">>,
     <<"Probing", "Probing">>, <<"Probing", "Succeeded">>,
     <<"Probing", "NoUsablePath">>, <<"Probing", "Failed">>}

C14_Step ==
    LET s == StateOf(pc, fd, ret, errno, nopen)
        t == StateOf(pc', fd', ret', errno', nopen')
    IN  \/ pc = "exited" /\ pc' = "L19" /\ t = "Start"
        \/ /\ pc # "exited"
           /\ s = t \/ <<s, t>> \in Transitions
           /\ (s = "Start" /\ t = "Opened" => fd' >= 0 /\ isopen')
           /\ (s = "Start" /\ t = "Failed" => argc # 2 \/ fd' < 0)
           /\ (s = "Probing" /\ t = "Succeeded" => ret' = 0)
           /\ (s = "Probing" /\ t = "NoUsablePath" =>
                    ret < 0 /\ errno = "ENOTCONN")
           /\ (s = "Probing" /\ t = "Failed" =>
                    ret < 0 /\ errno \notin Transient \cup {"ENOTCONN"})
           /\ (pc = "L33" /\ pc' = "L29" => ret < 0 /\ errno \in Transient)
           /\ (s \in {"Succeeded", "NoUsablePath", "Failed"} => t = s)

C14_Refinement == [][C14_Step]_vars

C14_Witness ==
    /\ pc = "L32" /\ StateOf(pc, fd, ret, errno, nopen) = "NoUsablePath"
    /\ ntrans >= 1
    /\ \E p \in prev : p.exit_code = 0

\* C15: a request is issued only while the handle is open (the process
\* stands at line 29 only with an open descriptor, and once a close was
\* made it never stands there again), the device is opened at most once
\* per run, and close is called at most once and only on a descriptor
\* that open returned.
C15_HandleDiscipline ==
    /\ nopen <= 1
    /\ nclose <= 1
    /\ (pc = "L29" => isopen /\ fd >= 0 /\ nopen = 1 /\ nclose = 0)
    /\ (nreq > 0 => nopen = 1 /\ fd >= 0)
    /\ (pc = "L38" => isopen /\ fd >= 0)
    /\ (nclose = 1 => nopen = 1 /\ fd >= 0 /\ ~isopen
                      /\ pc \in {"L39", "exited"})
    /\ (isopen => nopen = 1 /\ fd >= 0)

C15_Witness == pc = "L39" /\ nclose = 1 /\ nopen = 1 /\ nreq = MaxCount

\* C16: the status of a request is classified success first, then
\* not-connected, then transient, then other; every status puts the run
\* on exactly one of the four paths: out of the loop to the close (the
\* return value 0 decides, whatever errno still holds), the `no usable
\* paths` exit, the retry, the diagnostic exit.  A not-connected status
\* is never retried and never reported through the ioctl diagnostic.
\* (At line 30, and at line 33 once not-connected is ruled out, the
\* classification of a failure status is still under way.)
ToClose == pc \in {"L38", "L39"} \/ (Exited /\ nclose = 1 /\ err = <<>>)
ToNoPathExit ==
    \/ pc \in {"L31", "L32"}
    \/ Exited /\ nclose = 0 /\ err = <<>>
              /\ out = <<"probing", "no usable paths">>
ToRetry == pc = "L29"
ToDiagExit ==
    \/ pc \in {"L34", "L35"}
    \/ Exited /\ nclose = 0 /\ Len(err) = 1 /\ IsIoctlFailed(err[1])
              /\ out = <<"probing">>

C16_Classification ==
    nreq > 0 =>
        \/ pc = "L30" /\ ret < 0
        \/ pc = "L33" /\ ret < 0 /\ errno # "ENOTCONN"
        \/ ret = 0 /\ ToClose
        \/ ret < 0 /\ errno = "ENOTCONN" /\ ToNoPathExit
        \/ ret < 0 /\ errno \in Transient /\ ToRetry
        \/ ret < 0 /\ errno \notin Transient \cup {"ENOTCONN"} /\ ToDiagExit

C16_Witness ==
    /\ pc = "L38" /\ ret = 0 /\ errno \in Transient
    /\ \E p \in prev : p.last = "ENOTCONN" /\ p.nreq > 1 /\ p.err = <<>>
====
